---- MODULE Spec2Model ----
(***************************************************************************)
(* strace.ebpf.c: the session controller (check_args and main) as a state  *)
(* machine.  main is one sequential process whose program counter is pc;   *)
(* the environment is the process table (the external target, the started  *)
(* child and one descendant of it), the perf channels, and the signals      *)
(* delivered to the tracer.                                                 *)
(***************************************************************************)
EXTENDS Integers, Sequences, FiniteSets, TLC

\* ----------------------------------------------------------------- bounds
MaxPending == 2     \* records the perf channels hold before one is dropped
MaxProbes == 2      \* probes attach_probes can attach (b->pr_arr_qty)
MaxProbesSent == 2  \* zero-signal probes counted before the count saturates

\* ------------------------------------------------------ program constants
TRACING_ALL == 0
TRACING_CMD == 1
TRACING_PID == 2

NoPid == -1         \* Args.pid when no pid was given (main sets it first)
TargetPid == 1      \* a pid > 0 the user may give with the pid option
ChildPid == 2       \* the pid start_command returns when it succeeds
GrandPid == 3       \* a process forked by the started child

Pids == {TargetPid, ChildPid, GrandPid}
PidInputs == {NoPid, 0, TargetPid}      \* values cl_parser may leave in Args.pid

VARIABLES
    Args,           \* struct cl_options: command (given or not), pid, ff_mode
    tracing,        \* what are we tracing ?
    Out_lf,         \* output file: "NULL" or "open"
    OutputError,    \* I/O error in perf callback occured
    AbortTracing,   \* terminating signal received
    PidToBeKilled,  \* PID of started traced process
    pc,             \* position of main
    exit_status,    \* "none" while running, then EXIT_SUCCESS / EXIT_FAILURE
    bpf_str,        \* generated program text: "NULL", "alloc", "freed"
    b,              \* struct bpf_ctx: alloc, module, pr_arr_qty
    readers,        \* the readers array: "NULL", "alloc", "freed"
    stop_tracing,   \* loop variable of the poll loop
    handlers,       \* signal handlers installed
    subreaper,      \* PR_SET_CHILD_SUBREAPER set
    proc,           \* process table: pid -> "none","stopped","running","zombie"
    parent,         \* pid -> "tracer", "child", "other"
    pending,        \* records waiting in the perf channels
    intr,           \* a signal was delivered while poll was blocked
    sent,           \* SIGCONT / SIGKILL sent by main, in order: <<pid, sig>>
    probes_sent,    \* zero-signal probes sent so far (saturating)
    flushed,        \* fflush(Out_lf) was called
    attach_calls,   \* calls of attach_probes
    detach_calls,   \* calls of detach_all
    header,         \* the header record: "none", "written", "failed"
    callback,       \* the perf output callback: "none", "attached", "failed"
    polled,         \* values of nfds passed to perf_reader_poll so far
    msg             \* the last ERROR/INFO message of the exit or loop path

vars == <<Args, tracing, Out_lf, OutputError, AbortTracing, PidToBeKilled, pc,
          exit_status, bpf_str, b, readers, stop_tracing, handlers, subreaper,
          proc, parent, pending, intr, sent, probes_sent, flushed,
          attach_calls, detach_calls, header, callback, polled, msg>>

cfgvars == <<Args, tracing>>
memvars == <<bpf_str, b, readers>>
envvars == <<proc, parent, pending, intr>>
flagvars == <<OutputError, AbortTracing>>
histvars == <<sent, probes_sent, flushed, attach_calls, detach_calls, polled>>
outvars == <<header, callback>>

\* ---------------------------------------------------------------- helpers

\* kill(p, 0): 0 when the process exists (a zombie still exists), -1 otherwise
Kill0(p) == IF p \in Pids /\ proc[p] # "none" THEN 0 ELSE -1

\* the process table after kill(p, sig) for sig in SIGCONT, SIGKILL
Signalled(p, sig) ==
    IF p \notin Pids THEN proc
    ELSE IF sig = "SIGCONT" /\ proc[p] = "stopped"
         THEN [proc EXCEPT ![p] = "running"]
    ELSE IF sig = "SIGKILL" /\ proc[p] \in {"stopped", "running"}
         THEN [proc EXCEPT ![p] = "zombie"]
    ELSE proc

Min(x, y) == IF x < y THEN x ELSE y

\* return EXIT_xxx from main, or exit(EXIT_xxx)
Exit(status) == /\ pc' = "done"
                /\ exit_status' = status

Init ==
    /\ Args = [command |-> FALSE, pid |-> 0, ff_mode |-> FALSE]
    /\ tracing = TRACING_ALL
    /\ Out_lf = "NULL"
    /\ OutputError = 0
    /\ AbortTracing = 0
    /\ PidToBeKilled = 0
    /\ pc = "cl_parser"
    /\ exit_status = "none"
    /\ bpf_str = "NULL"
    /\ b = [alloc |-> FALSE, module |-> "NULL", pr_arr_qty |-> 0]
    /\ readers = "NULL"
    /\ stop_tracing = 0
    /\ handlers = FALSE
    /\ subreaper = FALSE
    /\ proc \in {[p \in Pids |-> IF p = TargetPid THEN s ELSE "none"] :
                    s \in {"running", "none"}}
    /\ parent = [p \in Pids |-> "other"]
    /\ pending = 0
    /\ intr = FALSE
    /\ sent = <<>>
    /\ probes_sent = 0
    /\ flushed = FALSE
    /\ attach_calls = 0
    /\ detach_calls = 0
    /\ header = "none"
    /\ callback = "none"
    /\ polled = {}
    /\ msg = ""

\* ------------------------------------------------------------------- main

\* lines 121-134: defaults, then the command-line parser fills Args
Main_cl_parser ==
    /\ pc = "cl_parser"
    /\ \E c \in BOOLEAN, p \in PidInputs, ff \in BOOLEAN :
          Args' = [command |-> c, pid |-> p, ff_mode |-> ff]
    /\ pc' = "check_args"
    /\ UNCHANGED <<tracing, Out_lf, flagvars, PidToBeKilled, exit_status,
                   memvars, stop_tracing, handlers, subreaper, envvars,
                   histvars, msg,
                   outvars>>

\* check_args with the liveness check of lines 96-103 put before the
\* conflict check of lines 90-94
check_args_probe_first(args) ==
    IF args.pid > 0
    THEN IF Kill0(Args.pid) = -1
         THEN [exit |-> TRUE, probe |-> TRUE, tracing |-> TRACING_ALL,
               msg |-> "process with PID does not exist"]
         ELSE IF args.command
         THEN [exit |-> TRUE, probe |-> TRUE, tracing |-> TRACING_ALL,
               msg |-> "command and PID cannot be set together"]
         ELSE [exit |-> FALSE, probe |-> TRUE, tracing |-> TRACING_PID,
               msg |-> msg]
    ELSE IF args.command
    THEN [exit |-> FALSE, probe |-> FALSE, tracing |-> TRACING_CMD,
          msg |-> msg]
    ELSE [exit |-> FALSE, probe |-> FALSE, tracing |-> TRACING_ALL,
          msg |-> "will trace all syscalls in the system..."]

\* check_args with line 102 returning TRACING_CMD
check_args_wrong_mode(args) ==
    IF args.command /\ args.pid > 0
    THEN [exit |-> TRUE, probe |-> FALSE, tracing |-> TRACING_ALL,
          msg |-> "command and PID cannot be set together"]
    ELSE IF args.pid > 0
    THEN IF Kill0(Args.pid) = -1
         THEN [exit |-> TRUE, probe |-> TRUE, tracing |-> TRACING_ALL,
               msg |-> "process with PID does not exist"]
         ELSE [exit |-> FALSE, probe |-> TRUE, tracing |-> TRACING_CMD,
               msg |-> msg]
    ELSE IF args.command
    THEN [exit |-> FALSE, probe |-> FALSE, tracing |-> TRACING_CMD,
          msg |-> msg]
    ELSE [exit |-> FALSE, probe |-> FALSE, tracing |-> TRACING_ALL,
          msg |-> "will trace all syscalls in the system..."]

\* check_args with the exit of line 100 missing: a dead target is reported
\* and traced all the same
check_args_no_exit(args) ==
    IF args.command /\ args.pid > 0
    THEN [exit |-> TRUE, probe |-> FALSE, tracing |-> TRACING_ALL,
          msg |-> "command and PID cannot be set together"]
    ELSE IF args.pid > 0
    THEN [exit |-> FALSE, probe |-> TRUE, tracing |-> TRACING_PID,
          msg |-> IF Kill0(Args.pid) = -1
                  THEN "process with PID does not exist" ELSE msg]
    ELSE IF args.command
    THEN [exit |-> FALSE, probe |-> FALSE, tracing |-> TRACING_CMD,
          msg |-> msg]
    ELSE [exit |-> FALSE, probe |-> FALSE, tracing |-> TRACING_ALL,
          msg |-> "will trace all syscalls in the system..."]

\* lines 87-112: check_args(&Args): what it does (exit(EXIT_FAILURE) or
\* return), whether it sent the zero-signal probe, and the mode it returns
check_args(args) ==
    IF args.command /\ args.pid > 0
    THEN [exit |-> TRUE, probe |-> FALSE, tracing |-> TRACING_ALL,
          msg |-> "command and PID cannot be set together"]
    ELSE IF args.pid > 0
    THEN IF Kill0(Args.pid) = -1
         THEN [exit |-> TRUE, probe |-> TRUE, tracing |-> TRACING_ALL,
               msg |-> "process with PID does not exist"]
         ELSE [exit |-> FALSE, probe |-> TRUE, tracing |-> TRACING_PID,
               msg |-> msg]
    ELSE IF args.command
    THEN [exit |-> FALSE, probe |-> FALSE, tracing |-> TRACING_CMD,
          msg |-> msg]
    ELSE [exit |-> FALSE, probe |-> FALSE, tracing |-> TRACING_ALL,
          msg |-> "will trace all syscalls in the system..."]

\* line 137: tracing = check_args(&Args)
Main_check_args ==
    /\ pc = "check_args"
    /\ LET r == check_args(Args) IN
          /\ msg' = r.msg
          /\ probes_sent' = IF r.probe THEN Min(probes_sent + 1, MaxProbesSent)
                            ELSE probes_sent
          /\ IF r.exit
             THEN /\ Exit("EXIT_FAILURE")
                  /\ UNCHANGED tracing
             ELSE /\ tracing' = r.tracing
                  /\ pc' = "setup_out_lf"
                  /\ UNCHANGED exit_status
    /\ UNCHANGED <<Args, Out_lf, flagvars, PidToBeKilled, memvars,
                   stop_tracing, handlers, subreaper, envvars, sent, flushed,
                   attach_calls, detach_calls, polled, outvars>>

\* lines 139-143: setup_out_lf()
Main_setup_out_lf ==
    /\ pc = "setup_out_lf"
    /\ \E ok \in BOOLEAN :
          IF ok
          THEN /\ Out_lf' = "open"
               /\ pc' = "prctl"
               /\ UNCHANGED <<msg, exit_status>>
          ELSE /\ Out_lf' = "NULL"
               /\ msg' = "failed to set up the output file"
               /\ Exit("EXIT_FAILURE")
    /\ UNCHANGED <<cfgvars, flagvars, PidToBeKilled, memvars, stop_tracing,
                   handlers, subreaper, envvars, histvars,
                   outvars>>

\* lines 145-163: initialisation, and the child subreaper in follow-fork mode
Main_prctl ==
    /\ pc = "prctl"
    /\ IF Args.ff_mode
       THEN \E ok \in BOOLEAN :
               IF ok
               THEN /\ subreaper' = TRUE
                    /\ pc' = "attach_signals_handlers"
                    /\ UNCHANGED <<msg, exit_status>>
               ELSE /\ msg' = "failed to set 'child subreaper' attribute"
                    /\ Exit("EXIT_FAILURE")
                    /\ UNCHANGED subreaper
       ELSE /\ pc' = "attach_signals_handlers"
            /\ UNCHANGED <<subreaper, msg, exit_status>>
    /\ UNCHANGED <<cfgvars, Out_lf, flagvars, PidToBeKilled, memvars,
                   stop_tracing, handlers, envvars, histvars,
                   outvars>>

\* line 165: attach_signals_handlers()
Main_attach_signals_handlers ==
    /\ pc = "attach_signals_handlers"
    /\ handlers' = TRUE
    /\ pc' = "start_command"
    /\ UNCHANGED <<cfgvars, Out_lf, flagvars, PidToBeKilled, exit_status,
                   memvars, stop_tracing, subreaper, envvars, histvars, msg,
                   outvars>>

\* lines 167-177: run the command, remember the child to be killed
Main_start_command ==
    /\ pc = "start_command"
    /\ IF Args.command
       THEN \E ok \in BOOLEAN :
               IF ok
               THEN /\ Args' = [Args EXCEPT !.pid = ChildPid]
                    /\ proc' = [proc EXCEPT ![ChildPid] = "stopped"]
                    /\ parent' = [parent EXCEPT ![ChildPid] = "tracer"]
                    /\ PidToBeKilled' = ChildPid
                    /\ pc' = "generate_ebpf"
                    /\ UNCHANGED <<msg, exit_status>>
               ELSE /\ Args' = [Args EXCEPT !.pid = -1]
                    /\ msg' = "failed to start the command"
                    /\ Exit("EXIT_FAILURE")
                    /\ UNCHANGED <<proc, parent, PidToBeKilled>>
       ELSE /\ pc' = "generate_ebpf"
            /\ UNCHANGED <<Args, proc, parent, PidToBeKilled, msg, exit_status>>
    /\ UNCHANGED <<tracing, Out_lf, flagvars, memvars, stop_tracing, handlers,
                   subreaper, pending, intr, histvars,
                   outvars>>

\* lines 179-186: generate BPF program
Main_generate_ebpf ==
    /\ pc = "generate_ebpf"
    /\ \E ok \in BOOLEAN :
          IF ok
          THEN /\ bpf_str' = "alloc"
               /\ pc' = "calloc_b"
               /\ UNCHANGED <<msg, exit_status>>
          ELSE /\ bpf_str' = "NULL"
               /\ msg' = "cannot generate eBPF code"
               /\ Exit("EXIT_FAILURE")
    /\ UNCHANGED <<cfgvars, Out_lf, flagvars, PidToBeKilled, b, readers,
                   stop_tracing, handlers, subreaper, envvars, histvars,
                   outvars>>

\* lines 188-206: finish the program text, allocate the bpf context
Main_calloc_b ==
    /\ pc = "calloc_b"
    /\ \E ok \in BOOLEAN :
          IF ok
          THEN /\ b' = [b EXCEPT !.alloc = TRUE]
               /\ pc' = "compile"
               /\ UNCHANGED <<bpf_str, msg, exit_status>>
          ELSE /\ msg' = "out of memory"
               /\ bpf_str' = "freed"
               /\ Exit("EXIT_FAILURE")
               /\ UNCHANGED b
    /\ UNCHANGED <<cfgvars, Out_lf, flagvars, PidToBeKilled, readers,
                   stop_tracing, handlers, subreaper, envvars, histvars,
                   outvars>>

\* lines 208-217 with the free(bpf_str) of line 211 put after the test of
\* b->module
Main_compile_late_free ==
    /\ pc = "compile"
    /\ \E ok \in BOOLEAN :
          IF ok
          THEN /\ b' = [b EXCEPT !.module = "loaded"]
               /\ bpf_str' = "freed"
               /\ pc' = "attach_probes"
               /\ UNCHANGED <<msg, exit_status>>
          ELSE /\ b' = [b EXCEPT !.module = "NULL"]
               /\ msg' = "cannot compile eBPF code"
               /\ Exit("EXIT_FAILURE")
               /\ UNCHANGED bpf_str
    /\ UNCHANGED <<cfgvars, Out_lf, flagvars, PidToBeKilled, readers,
                   stop_tracing, handlers, subreaper, envvars, histvars,
                   outvars>>

\* lines 208-217: compile generated eBPF code, release the text
Main_compile ==
    /\ pc = "compile"
    /\ bpf_str' = "freed"
    /\ \E ok \in BOOLEAN :
          IF ok
          THEN /\ b' = [b EXCEPT !.module = "loaded"]
               /\ pc' = "attach_probes"
               /\ UNCHANGED <<msg, exit_status>>
          ELSE /\ b' = [b EXCEPT !.module = "NULL"]
               /\ msg' = "cannot compile eBPF code"
               /\ Exit("EXIT_FAILURE")
    /\ UNCHANGED <<cfgvars, Out_lf, flagvars, PidToBeKilled, readers,
                   stop_tracing, handlers, subreaper, envvars, histvars,
                   outvars>>

\* lines 219-223 with line 222 a return EXIT_FAILURE, as at line 214
Main_attach_probes_return ==
    /\ pc = "attach_probes"
    /\ attach_calls' = attach_calls + 1
    /\ \E n \in 0..MaxProbes :
          /\ b' = [b EXCEPT !.pr_arr_qty = n]
          /\ IF n = 0
             THEN /\ msg' = "no probes were attached"
                  /\ Exit("EXIT_FAILURE")
             ELSE /\ pc' = "Print_header"
                  /\ UNCHANGED <<msg, exit_status>>
    /\ UNCHANGED <<cfgvars, Out_lf, flagvars, PidToBeKilled, bpf_str, readers,
                   stop_tracing, handlers, subreaper, envvars, sent,
                   probes_sent, flushed, detach_calls, polled, outvars>>

\* lines 219-223: attach_probes(b); false when no probe was attached
Main_attach_probes ==
    /\ pc = "attach_probes"
    /\ attach_calls' = attach_calls + 1
    /\ \E n \in 0..MaxProbes :
          /\ b' = [b EXCEPT !.pr_arr_qty = n]
          /\ IF n = 0
             THEN /\ msg' = "no probes were attached"
                  /\ pc' = "error_kill"
             ELSE /\ pc' = "Print_header"
                  /\ UNCHANGED msg
    /\ UNCHANGED <<cfgvars, Out_lf, flagvars, PidToBeKilled, exit_status,
                   bpf_str, readers, stop_tracing, handlers, subreaper,
                   envvars, sent, probes_sent, flushed,
                   detach_calls, polled,
                   outvars>>

\* lines 225-230 with line 229 going to error_kill, past detach_all
Main_Print_header_no_detach ==
    /\ pc = "Print_header"
    /\ \E ok \in BOOLEAN :
          IF ok
          THEN /\ header' = "written"
               /\ pc' = "attach_callback"
               /\ UNCHANGED msg
          ELSE /\ header' = "failed"
               /\ msg' = "error while printing header"
               /\ pc' = "error_kill"
    /\ UNCHANGED <<cfgvars, Out_lf, flagvars, PidToBeKilled, exit_status,
                   memvars, stop_tracing, handlers, subreaper, envvars,
                   histvars, callback>>

\* lines 225-230: Print_header[Out_lf_fmt](argc, argv)
Main_Print_header ==
    /\ pc = "Print_header"
    /\ \E ok \in BOOLEAN :
          IF ok
          THEN /\ header' = "written"
               /\ pc' = "attach_callback"
               /\ UNCHANGED msg
          ELSE /\ header' = "failed"
               /\ msg' = "error while printing header"
               /\ pc' = "error_detach"
    /\ UNCHANGED <<cfgvars, Out_lf, flagvars, PidToBeKilled, exit_status,
                   memvars, stop_tracing, handlers, subreaper, envvars,
                   histvars,
                   callback>>

\* lines 239-250 with the kill(Args.pid, SIGCONT) of line 244 missing
Main_attach_callback_no_cont ==
    /\ pc = "attach_callback"
    /\ \E res \in {0, -1} :
          IF res = 0
          THEN /\ callback' = "attached"
               /\ pc' = "calloc_readers"
               /\ UNCHANGED msg
          ELSE /\ callback' = "failed"
               /\ msg' = "cannot attach callbacks to perf output"
               /\ pc' = "error_detach"
    /\ UNCHANGED <<cfgvars, Out_lf, flagvars, PidToBeKilled, exit_status,
                   memvars, stop_tracing, handlers, subreaper, envvars,
                   histvars, header>>

\* lines 239-250 with PidToBeKilled = 0 added after the SIGCONT of line 244
Main_attach_callback_clears ==
    /\ pc = "attach_callback"
    /\ \E res \in {0, -1} :
          IF res = 0
          THEN /\ callback' = "attached"
               /\ IF Args.command
                  THEN /\ proc' = Signalled(Args.pid, "SIGCONT")
                       /\ sent' = Append(sent, <<Args.pid, "SIGCONT">>)
                       /\ PidToBeKilled' = 0
                  ELSE UNCHANGED <<proc, sent, PidToBeKilled>>
               /\ pc' = "calloc_readers"
               /\ UNCHANGED msg
          ELSE /\ callback' = "failed"
               /\ msg' = "cannot attach callbacks to perf output"
               /\ pc' = "error_detach"
               /\ UNCHANGED <<proc, sent, PidToBeKilled>>
    /\ UNCHANGED <<cfgvars, Out_lf, flagvars, exit_status, memvars,
                   stop_tracing, handlers, subreaper, parent, pending, intr,
                   probes_sent, flushed, attach_calls, detach_calls, polled,
                   header>>

\* lines 239-250: attach the callback to perf output, then let child go
Main_attach_callback ==
    /\ pc = "attach_callback"
    /\ \E res \in {0, -1} :
          IF res = 0
          THEN /\ callback' = "attached"
               /\ IF Args.command
                  THEN /\ proc' = Signalled(Args.pid, "SIGCONT")
                       /\ sent' = Append(sent, <<Args.pid, "SIGCONT">>)
                  ELSE UNCHANGED <<proc, sent>>
               /\ pc' = "calloc_readers"
               /\ UNCHANGED msg
          ELSE /\ callback' = "failed"
               /\ msg' = "cannot attach callbacks to perf output"
               /\ pc' = "error_detach"
               /\ UNCHANGED <<proc, sent>>
    /\ UNCHANGED <<cfgvars, Out_lf, flagvars, PidToBeKilled, exit_status,
                   memvars, stop_tracing, handlers, subreaper, parent,
                   pending, intr, probes_sent, flushed, detach_calls, polled,
                   attach_calls, header>>

\* lines 252-261 with line 255 going to error_kill, past detach_all
Main_calloc_readers_no_detach ==
    /\ pc = "calloc_readers"
    /\ \E ok \in BOOLEAN :
          IF ok
          THEN /\ readers' = "alloc"
               /\ stop_tracing' = 0
               /\ pc' = "while"
               /\ UNCHANGED msg
          ELSE /\ msg' = "out of memory"
               /\ pc' = "error_kill"
               /\ UNCHANGED <<readers, stop_tracing>>
    /\ UNCHANGED <<cfgvars, Out_lf, flagvars, PidToBeKilled, exit_status,
                   bpf_str, b, handlers, subreaper, envvars, histvars,
                   outvars>>

\* lines 252-261: the readers array, stop_tracing = 0
Main_calloc_readers ==
    /\ pc = "calloc_readers"
    /\ \E ok \in BOOLEAN :
          IF ok
          THEN /\ readers' = "alloc"
               /\ stop_tracing' = 0
               /\ pc' = "while"
               /\ UNCHANGED msg
          ELSE /\ msg' = "out of memory"
               /\ pc' = "error_detach"
               /\ UNCHANGED <<readers, stop_tracing>>
    /\ UNCHANGED <<cfgvars, Out_lf, flagvars, PidToBeKilled, exit_status,
                   bpf_str, b, handlers, subreaper, envvars, histvars,
                   outvars>>

\* ---------------------------------------------------------- the poll loop

\* line 262: while (!stop_tracing)
Main_while ==
    /\ pc = "while"
    /\ pc' = IF stop_tracing = 0 THEN "poll" ELSE "cleanup"
    /\ UNCHANGED <<cfgvars, Out_lf, flagvars, PidToBeKilled, exit_status,
                   memvars, stop_tracing, handlers, subreaper, envvars,
                   histvars, msg,
                   outvars>>

\* line 264: perf_reader_poll(b->pr_arr_qty, readers, -1) is called and blocks
Main_poll_enter ==
    /\ pc = "poll"
    /\ polled' = polled \cup {b.pr_arr_qty}
    /\ intr' = FALSE
    /\ pc' = "poll_blocked"
    /\ UNCHANGED <<cfgvars, Out_lf, flagvars, PidToBeKilled, exit_status,
                   memvars, stop_tracing, handlers, subreaper, proc, parent,
                   pending, sent, probes_sent, flushed, detach_calls, msg,
                   attach_calls, outvars>>

\* line 264: perf_reader_poll returns: a channel has data (the callback
\* prints every record and sets OutputError when a write fails) or a signal
\* was delivered while it was blocked
Main_poll_return ==
    /\ pc = "poll_blocked"
    /\ pending > 0 \/ intr
    /\ IF pending > 0
       THEN \E werr \in BOOLEAN :
               OutputError' = IF werr THEN 1 ELSE OutputError
       ELSE UNCHANGED OutputError
    /\ pending' = 0
    /\ intr' = FALSE
    /\ pc' = "check_OutputError"
    /\ UNCHANGED <<cfgvars, Out_lf, AbortTracing, PidToBeKilled, exit_status,
                   memvars, stop_tracing, handlers, subreaper, proc, parent,
                   histvars, msg,
                   outvars>>

\* lines 266-269 tearing down at once: detach_all(b) and stop_tracing = 1
\* in place of the break of line 268
Main_check_OutputError_early_detach ==
    /\ pc = "check_OutputError"
    /\ IF OutputError # 0
       THEN /\ msg' = "error while writing to output"
            /\ b' = [b EXCEPT !.pr_arr_qty = 0, !.module = "NULL"]
            /\ detach_calls' = detach_calls + 1
            /\ stop_tracing' = 1
            /\ pc' = "while"
       ELSE /\ pc' = "check_AbortTracing"
            /\ UNCHANGED <<msg, b, detach_calls, stop_tracing>>
    /\ UNCHANGED <<cfgvars, Out_lf, flagvars, PidToBeKilled, exit_status,
                   bpf_str, readers, handlers, subreaper, envvars, sent,
                   probes_sent, flushed, attach_calls, polled, outvars>>

\* lines 266-269 with the break of line 268 missing
Main_check_OutputError_no_break ==
    /\ pc = "check_OutputError"
    /\ msg' = IF OutputError # 0 THEN "error while writing to output" ELSE msg
    /\ pc' = "check_AbortTracing"
    /\ UNCHANGED <<cfgvars, Out_lf, flagvars, PidToBeKilled, exit_status,
                   memvars, stop_tracing, handlers, subreaper, envvars,
                   histvars, outvars>>

\* lines 266-269: if (OutputError) break
Main_check_OutputError ==
    /\ pc = "check_OutputError"
    /\ IF OutputError # 0
       THEN /\ msg' = "error while writing to output"
            /\ pc' = "cleanup"
       ELSE /\ pc' = "check_AbortTracing"
            /\ UNCHANGED msg
    /\ UNCHANGED <<cfgvars, Out_lf, flagvars, PidToBeKilled, exit_status,
                   memvars, stop_tracing, handlers, subreaper, envvars,
                   histvars,
                   outvars>>

\* lines 271-274 with the break of line 273 missing
Main_check_AbortTracing_no_break ==
    /\ pc = "check_AbortTracing"
    /\ msg' = IF AbortTracing # 0
              THEN "Notice: terminated by signal. Exiting..." ELSE msg
    /\ pc' = "switch_tracing"
    /\ UNCHANGED <<cfgvars, Out_lf, flagvars, PidToBeKilled, exit_status,
                   memvars, stop_tracing, handlers, subreaper, envvars,
                   histvars, outvars>>

\* lines 271-274: if (AbortTracing) break
Main_check_AbortTracing ==
    /\ pc = "check_AbortTracing"
    /\ IF AbortTracing # 0
       THEN /\ msg' = "Notice: terminated by signal. Exiting..."
            /\ pc' = "cleanup"
       ELSE /\ pc' = "switch_tracing"
            /\ UNCHANGED msg
    /\ UNCHANGED <<cfgvars, Out_lf, flagvars, PidToBeKilled, exit_status,
                   memvars, stop_tracing, handlers, subreaper, envvars,
                   histvars,
                   outvars>>

\* the children of the tracer that waitpid(-1, ...) can wait for
Children == {p \in Pids : parent[p] = "tracer" /\ proc[p] # "none"}

\* waitpid(-1, NULL, WNOHANG): the possible results; -1 is ECHILD, 0 is
\* "no child has changed state", a pid is a terminated child, now reaped
WaitpidResults ==
    IF Children = {} THEN {-1}
    ELSE IF \E p \in Children : proc[p] = "zombie"
         THEN {p \in Children : proc[p] = "zombie"}
    ELSE {0}

Reaped(res) == IF res \in Pids THEN [proc EXCEPT ![res] = "none"] ELSE proc

\* lines 277-279: case TRACING_ALL: wait for a terminating signal
Case_TRACING_ALL == UNCHANGED <<stop_tracing, proc, probes_sent, msg>>

\* case TRACING_CMD without the test of Args.ff_mode of line 281: the loop
\* always stops when the started child is reaped
Case_TRACING_CMD_no_ff ==
    \E res \in WaitpidResults :
       /\ proc' = Reaped(res)
       /\ IF res = Args.pid
          THEN /\ msg' = "Notice: the child exited"
               /\ stop_tracing' = 1
          ELSE UNCHANGED <<msg, stop_tracing>>
       /\ UNCHANGED probes_sent

\* lines 280-295: case TRACING_CMD: trace until the child (all children) exit
Case_TRACING_CMD ==
    \E res \in WaitpidResults :
       /\ proc' = Reaped(res)
       /\ IF Args.ff_mode
          THEN IF res = -1
               THEN /\ msg' = "Notice: all children exited"
                    /\ stop_tracing' = 1
               ELSE UNCHANGED <<msg, stop_tracing>>
          ELSE IF res = Args.pid
               THEN /\ msg' = "Notice: the child exited"
                    /\ stop_tracing' = 1
               ELSE UNCHANGED <<msg, stop_tracing>>
       /\ UNCHANGED probes_sent

\* lines 296-303: case TRACING_PID: check if the process traced by PID exists
Case_TRACING_PID ==
    /\ probes_sent' = Min(probes_sent + 1, MaxProbesSent)
    /\ IF Kill0(Args.pid) = -1
       THEN /\ msg' = "traced process with PID disappeared"
            /\ stop_tracing' = 1
       ELSE UNCHANGED <<msg, stop_tracing>>
    /\ UNCHANGED proc

\* what the rest of one pass through the switch leaves alone
SwitchFrame ==
    /\ pc' = "while"
    /\ UNCHANGED <<cfgvars, Out_lf, flagvars, PidToBeKilled, exit_status,
                   memvars, handlers, subreaper, parent, pending, intr, sent,
                   flushed, attach_calls, detach_calls, polled, outvars>>

\* the switch with the break of line 279 missing: TRACING_ALL falls
\* through into the TRACING_CMD case
Main_switch_tracing_fallthrough ==
    /\ pc = "switch_tracing"
    /\ IF tracing \in {TRACING_ALL, TRACING_CMD} THEN Case_TRACING_CMD
       ELSE Case_TRACING_PID
    /\ SwitchFrame

\* the switch with the TRACING_PID case missing
Main_switch_tracing_no_pid_case ==
    /\ pc = "switch_tracing"
    /\ IF tracing = TRACING_CMD THEN Case_TRACING_CMD ELSE Case_TRACING_ALL
    /\ SwitchFrame

\* lines 276-304: the termination condition of the tracing mode
Main_switch_tracing ==
    /\ pc = "switch_tracing"
    /\ IF tracing = TRACING_ALL THEN Case_TRACING_ALL
       ELSE IF tracing = TRACING_CMD THEN Case_TRACING_CMD
       ELSE tracing = TRACING_PID /\ Case_TRACING_PID
    /\ SwitchFrame

\* ------------------------------------------------------------ the exits

\* detach_all(b): every probe and its channel is released
detach_all(bb) == [bb EXCEPT !.pr_arr_qty = 0, !.module = "NULL"]

\* lines 307-310: flush, free the readers, detach, return EXIT_SUCCESS
Main_cleanup ==
    /\ pc = "cleanup"
    /\ flushed' = TRUE
    /\ readers' = "freed"
    /\ b' = detach_all(b)
    /\ detach_calls' = detach_calls + 1
    /\ Exit("EXIT_SUCCESS")
    /\ UNCHANGED <<cfgvars, Out_lf, flagvars, PidToBeKilled, bpf_str,
                   stop_tracing, handlers, subreaper, envvars, sent,
                   probes_sent, polled, msg,
                   attach_calls, outvars>>

\* lines 312-313: error_detach: detach_all(b), fall through to error_kill
Main_error_detach ==
    /\ pc = "error_detach"
    /\ b' = detach_all(b)
    /\ detach_calls' = detach_calls + 1
    /\ pc' = "error_kill"
    /\ UNCHANGED <<cfgvars, Out_lf, flagvars, PidToBeKilled, exit_status,
                   bpf_str, readers, stop_tracing, handlers, subreaper,
                   envvars, sent, probes_sent, flushed, polled, msg,
                   attach_calls, outvars>>

\* lines 314-319 killing Args.pid, the traced process, in place of
\* PidToBeKilled
Main_error_kill_traced ==
    /\ pc = "error_kill"
    /\ IF Args.pid > 0
       THEN /\ proc' = Signalled(Args.pid, "SIGKILL")
            /\ sent' = Append(sent, <<Args.pid, "SIGKILL">>)
       ELSE UNCHANGED <<proc, sent>>
    /\ Exit("EXIT_FAILURE")
    /\ UNCHANGED <<cfgvars, Out_lf, flagvars, PidToBeKilled, memvars,
                   stop_tracing, handlers, subreaper, parent, pending, intr,
                   probes_sent, flushed, detach_calls, polled, msg,
                   attach_calls, outvars>>

\* lines 314-319: error_kill: kill the started child, return EXIT_FAILURE
Main_error_kill ==
    /\ pc = "error_kill"
    /\ IF PidToBeKilled # 0
       THEN /\ proc' = Signalled(PidToBeKilled, "SIGKILL")
            /\ sent' = Append(sent, <<PidToBeKilled, "SIGKILL">>)
       ELSE UNCHANGED <<proc, sent>>
    /\ Exit("EXIT_FAILURE")
    /\ UNCHANGED <<cfgvars, Out_lf, flagvars, PidToBeKilled, memvars,
                   stop_tracing, handlers, subreaper, parent, pending, intr,
                   probes_sent, flushed, detach_calls, polled, msg,
                   attach_calls, outvars>>

\* ------------------------------------------------------- the environment

\* a terminating signal is delivered to the tracer: the handler sets the
\* cancellation flag, and a poll that is blocked returns
Env_Signal ==
    /\ handlers
    /\ pc # "done"
    /\ AbortTracing' = 1
    /\ intr' = IF pc = "poll_blocked" THEN TRUE ELSE intr
    /\ UNCHANGED <<cfgvars, Out_lf, OutputError, PidToBeKilled, pc,
                   exit_status, memvars, stop_tracing, handlers, subreaper,
                   proc, parent, pending, histvars, msg,
                   outvars>>

\* the positions of main at which the perf channels are open
PerfOpen == pc \in {"calloc_readers", "while", "poll", "poll_blocked",
                    "check_OutputError", "check_AbortTracing",
                    "switch_tracing", "cleanup", "error_detach"}

\* some process in the scope of the session is running and may make syscalls
ScopeActive ==
    \/ tracing = TRACING_ALL
    \/ tracing = TRACING_CMD /\ proc[ChildPid] = "running"
    \/ tracing = TRACING_CMD /\ Args.ff_mode /\ proc[GrandPid] = "running"
    \/ tracing = TRACING_PID /\ proc[TargetPid] = "running"

\* a traced syscall puts a record into a perf channel
Env_Emit ==
    /\ PerfOpen
    /\ ScopeActive
    /\ pending < MaxPending
    /\ pending' = pending + 1
    /\ UNCHANGED <<cfgvars, Out_lf, flagvars, PidToBeKilled, pc, exit_status,
                   memvars, stop_tracing, handlers, subreaper, proc, parent,
                   intr, histvars, msg,
                   outvars>>

\* the started child forks
Env_ChildFork ==
    /\ pc # "done"
    /\ proc[ChildPid] = "running"
    /\ proc[GrandPid] = "none"
    /\ proc' = [proc EXCEPT ![GrandPid] = "running"]
    /\ parent' = [parent EXCEPT ![GrandPid] = "child"]
    /\ UNCHANGED <<cfgvars, Out_lf, flagvars, PidToBeKilled, pc, exit_status,
                   memvars, stop_tracing, handlers, subreaper, pending, intr,
                   histvars, msg,
                   outvars>>

\* a running process exits.  A child of the tracer becomes a zombie and
\* SIGCHLD is delivered to the tracer (a blocked poll returns); the orphans
\* of the started child go to the tracer when it is a child subreaper.
Env_ProcExit ==
    /\ pc # "done"
    /\ \E p \in {ChildPid, GrandPid} :
          /\ proc[p] = "running"
          /\ IF parent[p] = "tracer"
             THEN /\ proc' = [proc EXCEPT ![p] = "zombie"]
                  /\ intr' = IF pc = "poll_blocked" THEN TRUE ELSE intr
             ELSE /\ proc' = [proc EXCEPT ![p] = "none"]
                  /\ UNCHANGED intr
          /\ parent' = IF p = ChildPid /\ parent[GrandPid] = "child"
                       THEN [parent EXCEPT ![GrandPid] =
                                IF subreaper THEN "tracer" ELSE "other"]
                       ELSE parent
    /\ UNCHANGED <<cfgvars, Out_lf, flagvars, PidToBeKilled, pc, exit_status,
                   memvars, stop_tracing, handlers, subreaper, pending,
                   histvars, msg,
                   outvars>>

\* the external target process disappears
Env_TargetExit ==
    /\ pc # "done"
    /\ proc[TargetPid] = "running"
    /\ proc' = [proc EXCEPT ![TargetPid] = "none"]
    /\ UNCHANGED <<cfgvars, Out_lf, flagvars, PidToBeKilled, pc, exit_status,
                   memvars, stop_tracing, handlers, subreaper, parent,
                   pending, intr, histvars, msg,
                   outvars>>

\* ---------------------------------------------------- the specifications

Main ==
    \/ Main_cl_parser
    \/ Main_check_args
    \/ Main_setup_out_lf
    \/ Main_prctl
    \/ Main_attach_signals_handlers
    \/ Main_start_command
    \/ Main_generate_ebpf
    \/ Main_calloc_b
    \/ Main_compile
    \/ Main_attach_probes
    \/ Main_Print_header
    \/ Main_attach_callback
    \/ Main_calloc_readers
    \/ Main_while
    \/ Main_poll_enter
    \/ Main_poll_return
    \/ Main_check_OutputError
    \/ Main_check_AbortTracing
    \/ Main_switch_tracing
    \/ Main_cleanup
    \/ Main_error_detach
    \/ Main_error_kill

Env ==
    \/ Env_Signal
    \/ Env_Emit
    \/ Env_ChildFork
    \/ Env_ProcExit
    \/ Env_TargetExit

Next == Main \/ Env

Spec == Init /\ [][Next]_vars

\* main is a running process: whenever it can take a step it eventually
\* does.  Nothing is assumed of the environment.
FairSpec == Spec /\ WF_vars(Main)

\* ------------------------------------------------------------ properties

\* the positions in sent of the signals sig; whether sig was sent to p
SentSigs(sig) == {i \in DOMAIN sent : sent[i][2] = sig}
SentTo(p, sig) == \E i \in DOMAIN sent : sent[i] = <<p, sig>>

\* the positions of main inside the while loop of lines 262-305
LoopPcs == {"while", "poll", "poll_blocked", "check_OutputError",
            "check_AbortTracing", "switch_tracing"}

AbortMsg == "Notice: terminated by signal. Exiting..."
OutputErrorMsg == "error while writing to output"

\* C1: when main has returned after start_command succeeded and without
\* having sent SIGCONT, SIGKILL was sent to the started child, and the child
\* is not left stopped.
C1_UnresumedChildKilled ==
    (pc = "done" /\ PidToBeKilled # 0 /\ SentSigs("SIGCONT") = {})
        => /\ SentTo(PidToBeKilled, "SIGKILL")
           /\ proc[PidToBeKilled] # "stopped"

\* C2: when the loop was left because OutputError was set at a poll return,
\* main has flushed the output, called detach_all and returned failure.
C2_OutputErrorExitsFailure ==
    (pc = "done" /\ msg = OutputErrorMsg)
        => /\ flushed
           /\ detach_calls = 1
           /\ exit_status = "EXIT_FAILURE"

\* the steps of main from a poll return to the exit through the
\* cancellation flag
C3_AbortStep ==
    /\ (pc = "poll_blocked" /\ pc' # pc) => pc' = "check_OutputError"
    /\ (pc = "check_OutputError" /\ OutputError = 0 /\ pc' # pc)
          => pc' = "check_AbortTracing"
    /\ (pc = "check_AbortTracing" /\ AbortTracing # 0 /\ pc' # pc)
          => pc' = "cleanup" /\ msg' = AbortMsg
    /\ (pc = "cleanup" /\ pc' # pc) => pc' = "done"
    /\ msg' = AbortMsg => AbortTracing = 1 /\ pc \in {"check_AbortTracing",
                                                      "cleanup", "done"}

\* what main has done when it has returned through the cancellation flag
C3_AbortDone ==
    (pc = "done" /\ msg = AbortMsg)
        => /\ flushed
           /\ detach_calls = 1
           /\ SentSigs("SIGKILL") = {}
           /\ exit_status = "EXIT_SUCCESS"

\* C3: with OutputError clear at a poll return the cancellation flag is
\* looked at next; when it is set the loop is left there and then, and main
\* goes on to flush, call detach_all once, send no SIGKILL and return success.
C3_CancelExitsCleanly == []C3_AbortDone /\ [][C3_AbortStep]_vars

C3_Witness ==
    /\ pc = "done"
    /\ msg = AbortMsg
    /\ AbortTracing = 1
    /\ OutputError = 0
    /\ exit_status = "EXIT_SUCCESS"

\* C4: when check_args is entered with a command and a pid > 0, its step is
\* the exit with failure, and in the state it leaves the output file was
\* never opened, no process was started and no signal (zero-signal probe
\* included) was sent.
C4_ConflictRejectedFirst ==
    [][(pc = "check_args" /\ Args.command /\ Args.pid > 0 /\ pc' # pc)
          => /\ pc' = "done"
             /\ exit_status' = "EXIT_FAILURE"
             /\ Out_lf' = "NULL"
             /\ \A p \in {ChildPid, GrandPid} : proc'[p] = "none"
             /\ PidToBeKilled' = 0
             /\ probes_sent' = 0
             /\ sent' = <<>>]_vars

C4_Witness ==
    /\ pc = "done"
    /\ Args.command
    /\ Args.pid = TargetPid
    /\ msg = "command and PID cannot be set together"

\* C5: when check_args is entered with a pid > 0, no command, and the target
\* does not exist, its step is the exit with failure: the probe was sent, the
\* output file is not opened, no child is started, nothing is generated or
\* compiled and no probe is attached.
C5_DeadTargetRejected ==
    [][(pc = "check_args" /\ ~Args.command /\ Args.pid > 0
           /\ proc[Args.pid] = "none" /\ pc' # pc)
          => /\ pc' = "done"
             /\ exit_status' = "EXIT_FAILURE"
             /\ probes_sent' = 1
             /\ Out_lf' = "NULL"
             /\ \A p \in {ChildPid, GrandPid} : proc'[p] = "none"
             /\ bpf_str' = "NULL"
             /\ b' = [alloc |-> FALSE, module |-> "NULL", pr_arr_qty |-> 0]
             /\ attach_calls' = 0]_vars

C5_Witness ==
    /\ pc = "done"
    /\ ~Args.command
    /\ Args.pid = TargetPid
    /\ probes_sent = 1
    /\ msg = "process with PID does not exist"
    /\ exit_status = "EXIT_FAILURE"

\* C6 as stated: a session that called attach_probes has called detach_all
\* exactly once when main has returned.
C6_DetachExactlyOnce ==
    (pc = "done" /\ attach_calls > 0) => detach_calls = 1

\* C6 as amended: detach_all is never called twice, and a session that
\* called attach_probes has, when main has returned, called detach_all once
\* if a probe was attached and not at all if attach_probes reported none.
C6_DetachOnceIfAttached ==
    /\ detach_calls <= 1
    /\ attach_calls <= 1
    /\ (pc = "done" /\ attach_calls > 0)
          => detach_calls = IF msg = "no probes were attached" THEN 0 ELSE 1

C6_Witness ==
    /\ pc = "done"
    /\ attach_calls = 1
    /\ detach_calls = 1
    /\ msg = "out of memory"
    /\ exit_status = "EXIT_FAILURE"

\* C7: SIGCONT is sent at most once and to the started child only; when it
\* has been sent attach_probes had succeeded, the header was written and the
\* callback was attached; and main is never in the loop, nor has it ever
\* called perf_reader_poll, in COMMAND mode without having sent it.
C7_ChildHeldUntilAttached ==
    /\ Cardinality(SentSigs("SIGCONT")) <= 1
    /\ \A i \in SentSigs("SIGCONT") :
          /\ i = 1
          /\ sent[i][1] = ChildPid
          /\ PidToBeKilled = ChildPid
          /\ attach_calls = 1
          /\ b.pr_arr_qty > 0 \/ detach_calls > 0
          /\ header = "written"
          /\ callback = "attached"
          /\ pc \notin {"attach_probes", "Print_header", "attach_callback"}
    /\ (Args.command /\ (pc \in LoopPcs \/ polled # {}))
          => /\ SentTo(ChildPid, "SIGCONT")
             /\ proc[ChildPid] # "stopped"
    /\ (PidToBeKilled # 0 /\ SentSigs("SIGCONT") = {} /\ pc # "done")
          => proc[ChildPid] = "stopped"

C7_Witness ==
    /\ tracing = TRACING_CMD
    /\ pc = "poll_blocked"
    /\ proc[ChildPid] = "running"
    /\ sent = << <<ChildPid, "SIGCONT">> >>

\* C8: in COMMAND mode without follow-fork, once main is in the loop and the
\* started child has exited, main eventually returns success, with no
\* cancellation signal having been sent.
C8_ChildExitEndsSession ==
    (/\ tracing = TRACING_CMD
     /\ ~Args.ff_mode
     /\ pc \in LoopPcs
     /\ AbortTracing = 0
     /\ proc[ChildPid] = "zombie")
        ~> (pc = "done" /\ exit_status = "EXIT_SUCCESS")

\* a step of main in the loop in ALL mode
C9_AllStep ==
    (tracing = TRACING_ALL /\ pc \in LoopPcs)
        => /\ stop_tracing' = 0
           /\ pc' \notin LoopPcs
                 => \/ pc = "check_OutputError" /\ OutputError # 0
                    \/ pc = "check_AbortTracing" /\ AbortTracing # 0

\* C9: in ALL mode stop_tracing is never set, and the loop is left only at
\* the OutputError check with the flag set or at the AbortTracing check with
\* the flag set.
C9_AllNeverSelfTerminates ==
    /\ [](tracing = TRACING_ALL => stop_tracing = 0)
    /\ [][C9_AllStep]_vars

C9_Witness ==
    /\ tracing = TRACING_ALL
    /\ pc = "while"
    /\ polled # {}
    /\ Args.pid = NoPid
    /\ OutputError = 0
    /\ AbortTracing = 0

\* the steps of main in PID mode from the switch to the exit
C10_PidStep ==
    /\ (tracing = TRACING_PID /\ pc = "switch_tracing" /\ pc' # pc)
          => /\ OutputError = 0
             /\ pc' = "while"
             /\ stop_tracing' = 1 <=> proc[TargetPid] = "none"
    /\ (tracing = TRACING_PID /\ pc = "while" /\ pc' # pc)
          => (pc' = "cleanup" <=> stop_tracing = 1)
    /\ (tracing = TRACING_PID /\ pc = "cleanup" /\ pc' # pc)
          => /\ pc' = "done"
             /\ flushed'
             /\ detach_calls' = 1
             /\ exit_status' = "EXIT_SUCCESS"

\* C10: in PID mode the pass through the switch (reached with neither flag
\* set) sets stop_tracing exactly when the target does not exist at that
\* moment, the loop is then left at its test, and main flushes, calls
\* detach_all once and returns success.
C10_PidEndsWhenTargetGone ==
    /\ [](tracing = TRACING_PID => Args.pid = TargetPid)
    /\ [][C10_PidStep]_vars

C10_Witness ==
    /\ tracing = TRACING_PID
    /\ pc = "done"
    /\ msg = "traced process with PID disappeared"
    /\ stop_tracing = 1
    /\ flushed
    /\ exit_status = "EXIT_SUCCESS"

\* the processes that descend from the session: the started child and what
\* it forked
Descendants == {ChildPid, GrandPid}

\* a step in the loop in COMMAND mode with follow-fork
C11_FfStep ==
    (tracing = TRACING_CMD /\ Args.ff_mode /\ pc \in LoopPcs)
        => /\ stop_tracing' # stop_tracing
                 => /\ pc = "switch_tracing"
                    /\ WaitpidResults = {-1}
                    /\ \A p \in Descendants : proc[p] = "none"
                    /\ proc' = proc
           /\ Cardinality({p \in Pids : proc[p] = "zombie"
                                        /\ proc'[p] = "none"}) <= 1
           /\ pc = "switch_tracing" => pc' \in {"switch_tracing", "while"}

\* C11: in COMMAND mode with follow-fork stop_tracing is set only by the
\* pass through the switch in which waitpid(-1, NULL, WNOHANG) reports
\* ECHILD, which is only when no descendant of the session is alive or
\* unreaped (the tracer is a child subreaper); no step reaps more than one
\* process, and the pass through the switch always goes on to the loop test.
C11_FfStopsOnlyOnEchild ==
    /\ []((tracing = TRACING_CMD /\ Args.ff_mode /\ pc \in LoopPcs)
             => /\ subreaper
                /\ stop_tracing = 1 => \A p \in Descendants : proc[p] = "none"
                /\ \A p \in Descendants :
                      proc[p] # "none" => parent[p] \in {"tracer", "child"})
    /\ [][C11_FfStep]_vars

C11_Witness ==
    /\ tracing = TRACING_CMD
    /\ Args.ff_mode
    /\ pc = "while"
    /\ stop_tracing = 0
    /\ polled # {}
    /\ proc[ChildPid] = "none"
    /\ proc[GrandPid] = "zombie"
    /\ parent[GrandPid] = "tracer"

\* C12: when the compilation failed main has returned failure with the
\* program text released, attach_probes never called, no probe and no
\* readers array, no header written, no callback attached and
\* perf_reader_poll never called.
C12_CompileFailure ==
    (pc = "done" /\ msg = "cannot compile eBPF code")
        => /\ exit_status = "EXIT_FAILURE"
           /\ bpf_str = "freed"
           /\ b.module = "NULL"
           /\ attach_calls = 0
           /\ b.pr_arr_qty = 0
           /\ readers = "NULL"
           /\ header = "none"
           /\ callback = "none"
           /\ polled = {}
           /\ detach_calls = 0

C12_Witness ==
    /\ pc = "done"
    /\ msg = "cannot compile eBPF code"
    /\ b.alloc
    /\ bpf_str = "freed"
    /\ exit_status = "EXIT_FAILURE"

\* a step of the session, as far as the flags and the termination
\* conditions go: the flags are never reset, a poll return leads to the
\* check of the flags, the switch is entered only from the check of
\* AbortTracing with both flags clear, and only the switch (and check_args)
\* waits for a child or probes the target
C13_FlagStep ==
    /\ AbortTracing # 0 => AbortTracing' # 0
    /\ OutputError # 0 => OutputError' # 0
    /\ (pc = "poll_blocked" /\ pc' # pc) => pc' = "check_OutputError"
    /\ (pc' = "switch_tracing" /\ pc # pc')
          => /\ pc = "check_AbortTracing"
             /\ AbortTracing = 0
             /\ OutputError = 0
    /\ probes_sent' # probes_sent => pc \in {"check_args", "switch_tracing"}
    /\ (\E p \in Pids : proc[p] = "zombie" /\ proc'[p] = "none")
          => pc = "switch_tracing"

\* C13: once perf_reader_poll has returned with OutputError or AbortTracing
\* set, main never comes to the switch (no waitpid, no liveness probe), to
\* the loop test or to perf_reader_poll again: it stays on the way from the
\* checks of the flags to the exit.
C13_FlagsCheckedFirst ==
    /\ [][C13_FlagStep]_vars
    /\ []((pc = "check_OutputError" /\ (OutputError # 0 \/ AbortTracing # 0))
             => [](pc \in {"check_OutputError", "check_AbortTracing",
                           "cleanup", "done"}))

C13_Witness ==
    /\ pc = "cleanup"
    /\ OutputError = 1
    /\ AbortTracing = 1
    /\ msg = OutputErrorMsg
    /\ stop_tracing = 0

\* C14: once the handlers are installed and a terminating signal has set
\* AbortTracing, main eventually returns.
C14_CancelEndsSession ==
    (handlers /\ AbortTracing = 1 /\ pc # "done") ~> (pc = "done")

\* C15: once the header failed to be written SIGCONT is never sent and
\* perf_reader_poll never called; the child, if one was started, is sent
\* SIGKILL only after detach_all was called; and when main has returned,
\* detach_all was called once, the started child was killed, and the exit
\* status is failure.
C15_HeaderFailure ==
    header = "failed"
        => /\ SentSigs("SIGCONT") = {}
           /\ polled = {}
           /\ pc \in {"error_detach", "error_kill", "done"}
           /\ callback = "none"
           /\ SentSigs("SIGKILL") # {} => detach_calls = 1
           /\ pc = "done"
                 => /\ detach_calls = 1
                    /\ b.pr_arr_qty = 0
                    /\ exit_status = "EXIT_FAILURE"
                    /\ msg = "error while printing header"
                    /\ PidToBeKilled # 0
                          => /\ sent = << <<PidToBeKilled, "SIGKILL">> >>
                             /\ proc[PidToBeKilled] = "zombie"
                    /\ PidToBeKilled = 0 => sent = <<>>

C15_Witness ==
    /\ pc = "done"
    /\ header = "failed"
    /\ PidToBeKilled = ChildPid
    /\ detach_calls = 1
    /\ sent = << <<ChildPid, "SIGKILL">> >>
    /\ exit_status = "EXIT_FAILURE"

\* C16: when attach_probes has reported that no probes were attached, no
\* header is written and perf_reader_poll is never called, and when main has
\* returned the started child, if any, was sent SIGKILL and is no longer
\* stopped, and the exit status is failure.
C16_NoProbesAttached ==
    msg = "no probes were attached"
        => /\ attach_calls = 1
           /\ b.pr_arr_qty = 0
           /\ header = "none"
           /\ callback = "none"
           /\ polled = {}
           /\ SentSigs("SIGCONT") = {}
           /\ pc \in {"error_kill", "done"}
           /\ pc = "done"
                 => /\ exit_status = "EXIT_FAILURE"
                    /\ PidToBeKilled # 0
                          => /\ sent = << <<PidToBeKilled, "SIGKILL">> >>
                             /\ proc[PidToBeKilled] = "zombie"
                    /\ PidToBeKilled = 0 => sent = <<>>

C16_Witness ==
    /\ pc = "done"
    /\ msg = "no probes were attached"
    /\ PidToBeKilled = ChildPid
    /\ sent = << <<ChildPid, "SIGKILL">> >>
    /\ exit_status = "EXIT_FAILURE"

\* C17 as stated: the marker is set only for a child the session started,
\* and a child that was resumed is not force-killed afterwards.
C17_ResumedChildNotKilled ==
    /\ PidToBeKilled # 0 => Args.command /\ PidToBeKilled = ChildPid
    /\ SentTo(ChildPid, "SIGCONT") => ~SentTo(ChildPid, "SIGKILL")

\* a step of the session, as far as the marker goes
C17_MarkerStep ==
    PidToBeKilled' # PidToBeKilled
        => /\ pc = "start_command"
           /\ Args.command
           /\ PidToBeKilled = 0
           /\ PidToBeKilled' = ChildPid
           /\ Args'.pid = ChildPid
           /\ proc[ChildPid] = "none"
           /\ proc'[ChildPid] = "stopped"

\* C17 as amended: the marker is set only by start_command having started
\* a process, to the pid of that child, and is never cleared or changed
\* afterwards; so when main returns failure after the child was resumed,
\* the resumed child was sent SIGKILL.
C17_MarkerSetNeverCleared ==
    /\ [][C17_MarkerStep]_vars
    /\ [](PidToBeKilled # 0
             => tracing = TRACING_CMD /\ PidToBeKilled = Args.pid)
    /\ []((SentTo(ChildPid, "SIGCONT") /\ pc = "done"
              /\ exit_status = "EXIT_FAILURE")
             => sent = << <<ChildPid, "SIGCONT">>, <<ChildPid, "SIGKILL">> >>)

C17_Witness ==
    /\ pc = "done"
    /\ msg = "out of memory"
    /\ PidToBeKilled = ChildPid
    /\ sent = << <<ChildPid, "SIGCONT">>, <<ChildPid, "SIGKILL">> >>
    /\ exit_status = "EXIT_FAILURE"

\* a step of the session, as far as the probes and the readers go
C18_TeardownStep ==
    /\ (pc \in LoopPcs /\ pc' \in LoopPcs) => b' = b /\ readers' = readers
    /\ polled' # polled => pc = "poll" /\ detach_calls' = 0
    /\ pc' = "poll_blocked" => detach_calls' = 0
    /\ detach_calls' # detach_calls => pc \in {"cleanup", "error_detach"}

\* C18: while main is in the loop detach_all has not been called, the
\* readers array is allocated and b->pr_arr_qty is positive and unchanged;
\* every call of perf_reader_poll passes that same b->pr_arr_qty; and once
\* detach_all has been called main is never in the loop again.
C18_TeardownAfterPolling ==
    /\ [](pc \in LoopPcs
             => /\ detach_calls = 0
                /\ readers = "alloc"
                /\ b.pr_arr_qty > 0
                /\ polled \subseteq {b.pr_arr_qty})
    /\ [](Cardinality(polled) <= 1)
    /\ [](detach_calls > 0 => pc \in {"error_kill", "done"})
    /\ [][C18_TeardownStep]_vars

C18_Witness ==
    /\ pc = "done"
    /\ polled = {MaxProbes}
    /\ detach_calls = 1
    /\ readers = "freed"
    /\ msg = "Notice: the child exited"

\* the positions of main after the start_command block of lines 167-177
AfterStart == {"generate_ebpf", "calloc_b", "compile", "attach_probes",
               "Print_header", "attach_callback", "calloc_readers",
               "cleanup", "error_detach", "error_kill"} \cup LoopPcs

\* the step of check_args, by what was given, and the step that starts a
\* process
C19_ScopeStep ==
    /\ (pc = "check_args" /\ pc' # pc)
          => LET cmd == Args.command
                 pid == Args.pid > 0
                 alive == Args.pid \in Pids /\ proc[Args.pid] # "none"
             IN  /\ pc' = "done" <=> (cmd /\ pid) \/ (pid /\ ~alive)
                 /\ pc' # "done"
                       => /\ pc' = "setup_out_lf"
                          /\ tracing' = TRACING_PID <=> (pid /\ ~cmd /\ alive)
                          /\ tracing' = TRACING_CMD <=> (cmd /\ ~pid)
                          /\ tracing' = TRACING_ALL <=> (~cmd /\ ~pid)
    /\ (pc # "check_args" /\ pc # "cl_parser") => tracing' = tracing
    /\ (\E p \in Pids : proc[p] = "none" /\ proc'[p] = "stopped")
          => /\ pc = "start_command"
             /\ tracing = TRACING_CMD
    /\ (pc = "start_command" /\ tracing = TRACING_CMD /\ pc' # pc)
          => \/ proc'[ChildPid] = "stopped" /\ pc' = "generate_ebpf"
             \/ pc' = "done" /\ msg' = "failed to start the command"

\* C19: check_args rejects exactly a command with a pid > 0 and a pid > 0
\* whose target does not exist; otherwise the mode is PID exactly for a
\* pid > 0 without a command and with the target alive, COMMAND exactly for
\* a command without a pid > 0, ALL exactly for neither; and main starts a
\* process exactly in COMMAND mode: past start_command a child was started
\* if and only if the mode is COMMAND (main returns when the start fails).
C19_ScopeResolution ==
    /\ [][C19_ScopeStep]_vars
    /\ [](pc \in AfterStart
             => /\ tracing \in {TRACING_ALL, TRACING_CMD, TRACING_PID}
                /\ tracing = TRACING_CMD <=> Args.command
                /\ tracing = TRACING_CMD <=> PidToBeKilled = ChildPid
                /\ tracing # TRACING_CMD => proc[ChildPid] = "none"
                /\ tracing = TRACING_PID => Args.pid = TargetPid)

C19_Witness ==
    /\ pc = "generate_ebpf"
    /\ tracing = TRACING_CMD
    /\ Args.command
    /\ Args.pid = ChildPid
    /\ proc[ChildPid] = "stopped"

\* C20: no signal is ever sent by main to a process other than the started
\* child; outside COMMAND mode PidToBeKilled stays 0 and nothing is sent;
\* SIGKILL is sent at most once, as the last thing before main returns
\* failure, and never when main returns success; the external target is
\* never killed by the session.
C20_KillOnlyOwnChildOnFailure ==
    /\ \A i \in DOMAIN sent : sent[i][1] = ChildPid
    /\ tracing # TRACING_CMD => PidToBeKilled = 0 /\ sent = <<>>
    /\ Cardinality(SentSigs("SIGKILL")) <= 1
    /\ \A i \in SentSigs("SIGKILL") :
          /\ i = Len(sent)
          /\ tracing = TRACING_CMD
          /\ PidToBeKilled = ChildPid
          /\ pc = "done"
          /\ exit_status = "EXIT_FAILURE"
    /\ exit_status = "EXIT_SUCCESS" => SentSigs("SIGKILL") = {}
    /\ proc[TargetPid] # "zombie"

C20_Witness ==
    /\ pc = "done"
    /\ tracing = TRACING_CMD
    /\ msg = "cannot attach callbacks to perf output"
    /\ sent = << <<ChildPid, "SIGKILL">> >>
    /\ exit_status = "EXIT_FAILURE"

====
